---- MODULE Spec2Model ----
(***************************************************************************)
(* Model of main.py of REM-MetaData: remove_all_metadata (the per-file     *)
(* sanitizer run by the pool workers) and process_folder (the dispatcher). *)
(***************************************************************************)
EXTENDS Integers, Sequences, FiniteSets, TLC

\* ------------------------------------------------------------------ bounds
MaxEntries == 2     \* entries of the input directory
NumTokens == 2      \* distinct values random_string() can return
MaxCpu == 2         \* largest cpu_count() of a host

\* --------------------------------------------------------------- constants
Epoch == 0                      \* os.utime(output_path, (0, 0))
Now == Epoch + 1                \* any time stamp a write leaves on a file
None == "<None>"
InputFolder == "input"
OutputFolder == "output"
UnsupportedMsg == "Unsupported or invalid image file"
JpegTypes == {"jpg", "jpeg"}    \* image_type in ['jpg', 'jpeg']
DecodeMsg == "cannot identify image file"
EncodeMsg == "[Errno 28] No space left on device"
XattrMissingMsg == "[Errno 2] No such file or directory: 'xattr'"

\* what an entry of the input directory can be: a directory, a regular file
\* that is no image, a regular file that cannot be read, an image
ImageKinds == {"png", "jpeg"}
Kinds == {"dir", "text", "unreadable"} \cup ImageKinds
EntryVariants ==
    {[kind |-> k, corrupt |-> FALSE] : k \in Kinds}
        \cup {[kind |-> k, corrupt |-> TRUE] : k \in ImageKinds}
Tokens == 1..NumTokens

\* -------------------------------------------------------------- exceptions
NoExc == [cls |-> "none", msg |-> ""]
Exc(c, m) == [cls |-> c, msg |-> m]
Parent(c) ==
    CASE c = "CalledProcessError" -> "SubprocessError"
      [] c = "SubprocessError" -> "Exception"
      [] c = "FileNotFoundError" -> "OSError"
      [] c = "IsADirectoryError" -> "OSError"
      [] c = "PermissionError" -> "OSError"
      [] c = "UnidentifiedImageError" -> "OSError"
      [] c = "OSError" -> "Exception"
      [] c = "ValueError" -> "Exception"
      [] c = "InvalidImageDataError" -> "ValueError"
      [] c = "Exception" -> "BaseException"
      [] OTHER -> "object"
RECURSIVE IsSubclass(_, _)
IsSubclass(c, base) ==
    IF c = base THEN TRUE
    ELSE IF c \in {"object", "none"} THEN FALSE
    ELSE IsSubclass(Parent(c), base)
Raised(e) == e.cls # "none"
Str(e) == e.msg

VARIABLES
    entries,        \* the input directory: listdir order, name i |-> entry
    host,           \* os.name == 'posix', xattr on PATH, cpu_count()
    pc,             \* where the caller is
    error,          \* the exception that left process_folder, or NoExc
    image_files,    \* the task list
    num_processes,
    next,           \* index of the next task the pool hands out
    running,        \* the calls of remove_all_metadata in progress
    returned,       \* per task: what the pool processes sent back for it
    results,        \* what pool.map returned
    summary,        \* the printed counts, or None
    outdir          \* the output directory: file name |-> file

vars == <<entries, host, pc, error, image_files, num_processes, next, running,
          returned, results, summary, outdir>>

\* ---------------------------------------------------------------- os.path
Join(folder, name) == <<folder, name>>
Basename(path) == path[Len(path)]
FileAt(path) == entries[Basename(path)]
IsFile(path) == FileAt(path).kind # "dir"

\* imghdr.what(path): the type, None, or an exception opening the file
What(path) ==
    LET f == FileAt(path) IN
    CASE f.kind = "dir" ->
            [exc |-> Exc("IsADirectoryError", "[Errno 21] Is a directory"),
             value |-> None]
      [] f.kind = "unreadable" ->
            [exc |-> Exc("PermissionError", "[Errno 13] Permission denied"),
             value |-> None]
      [] f.kind = "text" -> [exc |-> NoExc, value |-> None]
      [] OTHER -> [exc |-> NoExc, value |-> f.kind]
Truthy(v) == v # None /\ v # ""

Min(a, b) == IF a < b THEN a ELSE b

\* ------------------------------------------------------------------- Init
\* either process_folder is about to run on the input directory, or
\* remove_all_metadata is called directly on one of its entries
Init ==
    /\ entries \in UNION {[1..n -> EntryVariants] : n \in 0..MaxEntries}
    /\ host \in {h \in [posix : BOOLEAN, xattr : BOOLEAN, cpus : 1..MaxCpu] :
                    h.xattr => h.posix}
    /\ error = NoExc
    /\ next = 1
    /\ running = {}
    /\ results = <<>>
    /\ summary = None
    /\ outdir = <<>>
    /\ \/ /\ pc = "start"
          /\ image_files = <<>>
          /\ num_processes = 0
          /\ returned = <<>>
       \/ \E name \in DOMAIN entries :
            /\ pc = "direct"
            /\ image_files = << <<Join(InputFolder, name), OutputFolder>> >>
            /\ num_processes = 1
            /\ returned = << <<>> >>

\* ------------------------------------------------------ process_folder
\* lines 76-90: the loop over os.listdir(input_folder)
\* the loop with the classification result never tested
RECURSIVE CollectEveryFile(_)
CollectEveryFile(names) ==
    IF names = <<>> THEN <<>>
    ELSE LET input_path == Join(InputFolder, Head(names))
             rest == CollectEveryFile(Tail(names))
         IN IF ~IsFile(input_path) THEN rest
            ELSE IF Raised(What(input_path).exc) THEN rest
                 ELSE << <<input_path, OutputFolder>> >> \o rest

RECURSIVE CollectImageFiles(_)
CollectImageFiles(names) ==
    IF names = <<>> THEN <<>>
    ELSE LET input_path == Join(InputFolder, Head(names))
             rest == CollectImageFiles(Tail(names))
         IN IF ~IsFile(input_path) THEN rest
            ELSE LET r == What(input_path) IN
                 IF Raised(r.exc) THEN rest
                 ELSE IF Truthy(r.value)
                      THEN << <<input_path, OutputFolder>> >> \o rest
                      ELSE rest

ListDir == [i \in 1..Len(entries) |-> i]

\* lines 73-90
Scan ==
    /\ pc = "start"
    /\ image_files' = CollectImageFiles(ListDir)
    /\ returned' = [i \in 1..Len(image_files') |-> <<>>]
    /\ pc' = "pool"
    /\ UNCHANGED <<entries, host, error, num_processes, next, running,
                   results, summary, outdir>>

\* lines 93-96: Pool(processes=n) raises ValueError when n < 1
CreatePool ==
    /\ pc = "pool"
    /\ LET n == Min(host.cpus, Len(image_files)) IN
        /\ num_processes' = n
        /\ IF n < 1
           THEN /\ pc' = "raised"
                /\ error' = Exc("ValueError",
                                "Number of processes must be at least 1")
           ELSE /\ pc' = "map"
                /\ error' = error
    /\ UNCHANGED <<entries, host, image_files, next, running, returned,
                   results, summary, outdir>>

\* the queue position not advanced
NextAfterTakeStuck(n) == n

\* line 97: pool.map hands each task to one pool process; the position in
\* the task list after a task is taken
NextAfterTake(n) == n + 1

\* ------------------------------------------------- remove_all_metadata
InputPath(i) == image_files[i][1]
Failure(i, message) == <<FALSE, Basename(InputPath(i)), message>>
Success(i) == <<TRUE, Basename(InputPath(i)), None>>

\* the call for task i ends: its value (or the exception leaving it) goes
\* back to the caller
Return(i, e, value) ==
    returned' = [returned EXCEPT ![i] = Append(@, [exc |-> e, value |-> value])]

\* the outer handler as narrow as the one around the xattr call
OuterCatchesCalledProcessError(e) == IsSubclass(e.cls, "CalledProcessError")

\* line 67: except Exception as e
OuterCatches(e) == IsSubclass(e.cls, "Exception")

\* lines 67-68
Except(i, e) ==
    IF OuterCatches(e)
    THEN Return(i, NoExc, Failure(i, Str(e)))
    ELSE Return(i, e, <<>>)

\* a free pool process takes the next task and runs lines 22-32
Classify ==
    /\ pc \in {"map", "direct"}
    /\ Cardinality(running) < num_processes
    /\ next <= Len(image_files)
    /\ next' = NextAfterTake(next)
    /\ LET r == What(InputPath(next)) IN
        IF Raised(r.exc)
        THEN Except(next, r.exc) /\ running' = running
        ELSE IF ~Truthy(r.value)
        THEN Return(next, NoExc, Failure(next, UnsupportedMsg)) /\ running' = running
        ELSE /\ \E token \in Tokens :
                  running' = running \cup
                                {[pc |-> "open", idx |-> next,
                                  image_type |-> r.value,
                                  output_path |-> Join(image_files[next][2],
                                                       <<token, r.value>>)]}
             /\ returned' = returned
    /\ UNCHANGED <<entries, host, pc, error, image_files, num_processes,
                   results, summary, outdir>>

\* the output file opened before the source is decoded
SaveOutcomesOpenFirst(f) ==
    IF f.corrupt
    THEN {[exc |-> Exc("UnidentifiedImageError", DecodeMsg), wrote |-> TRUE]}
    ELSE {[exc |-> NoExc, wrote |-> TRUE]}
            \cup {[exc |-> Exc("OSError", EncodeMsg), wrote |-> b] : b \in BOOLEAN}

\* lines 35-42: what decoding and saving a file can do: the exception (if
\* any) and whether a file is left at output_path (a save that fails may
\* or may not leave the file it had begun)
SaveOutcomes(f) ==
    IF f.corrupt
    THEN {[exc |-> Exc("UnidentifiedImageError", DecodeMsg), wrote |-> FALSE]}
    ELSE {[exc |-> NoExc, wrote |-> TRUE]}
            \cup {[exc |-> Exc("OSError", EncodeMsg), wrote |-> b] : b \in BOOLEAN}

WriteFile(name, file) ==
    [n \in DOMAIN outdir \cup {name} |-> IF n = name THEN file ELSE outdir[n]]

Goto(t, label) == running' = (running \ {t}) \cup {[t EXCEPT !.pc = label]}
End(t) == running' = running \ {t}

\* lines 35-42
OpenSave(t) ==
    /\ t.pc = "open"
    /\ \E o \in SaveOutcomes(FileAt(InputPath(t.idx))) :
        /\ outdir' = IF o.wrote
                     THEN WriteFile(Basename(t.output_path),
                                    [source |-> InputPath(t.idx),
                                     complete |-> ~Raised(o.exc),
                                     atime |-> Now, mtime |-> Now])
                     ELSE outdir
        /\ IF Raised(o.exc)
           THEN Except(t.idx, o.exc) /\ End(t)
           ELSE Goto(t, "piexif") /\ returned' = returned
    /\ UNCHANGED <<entries, host, pc, error, image_files, num_processes, next,
                   results, summary>>

\* line 48: piexif.remove(output_path)
PiexifOutcomes(image_type) ==
    IF image_type \in JpegTypes
    THEN {NoExc, Exc("InvalidImageDataError", "Given file is neither JPEG nor TIFF.")}
    ELSE {NoExc}

\* lines 45-50: under "except Exception: pass"
Piexif(t) ==
    /\ t.pc = "piexif"
    /\ \E e \in PiexifOutcomes(t.image_type) :
        IF Raised(e) /\ ~IsSubclass(e.cls, "Exception")
        THEN Except(t.idx, e) /\ End(t)
        ELSE Goto(t, "xattr") /\ returned' = returned
    /\ UNCHANGED <<entries, host, pc, error, image_files, num_processes, next,
                   results, summary, outdir>>

\* line 55: subprocess.run(["xattr", "-c", output_path], check=True, ...)
XattrOutcomes ==
    IF ~host.posix THEN {NoExc}
    ELSE IF host.xattr
         THEN {NoExc, Exc("CalledProcessError",
                          "Command 'xattr -c' returned non-zero exit status 1.")}
         ELSE {Exc("FileNotFoundError", XattrMissingMsg)}

\* lines 53-57: under "except subprocess.CalledProcessError: pass"
Xattr(t) ==
    /\ t.pc = "xattr"
    /\ \E e \in XattrOutcomes :
        IF Raised(e) /\ ~IsSubclass(e.cls, "CalledProcessError")
        THEN Except(t.idx, e) /\ End(t)
        ELSE Goto(t, "utime") /\ returned' = returned
    /\ UNCHANGED <<entries, host, pc, error, image_files, num_processes, next,
                   results, summary, outdir>>

\* line 61: os.utime(output_path, (0, 0))
UtimeOutcomes == {NoExc, Exc("PermissionError", "[Errno 1] Operation not permitted")}

\* lines 60-65: under "except Exception: pass", then the return
Utime(t) ==
    /\ t.pc = "utime"
    /\ \E e \in UtimeOutcomes :
        LET name == Basename(t.output_path) IN
        IF Raised(e) /\ ~IsSubclass(e.cls, "Exception")
        THEN /\ Except(t.idx, e)
             /\ outdir' = outdir
        ELSE /\ outdir' = IF Raised(e) THEN outdir
                          ELSE [outdir EXCEPT ![name].atime = Epoch,
                                              ![name].mtime = Epoch]
             /\ Return(t.idx, NoExc, Success(t.idx))
    /\ End(t)
    /\ UNCHANGED <<entries, host, pc, error, image_files, num_processes, next,
                   results, summary>>

\* -------------------------------------------- process_folder, continued
HasReturned(i) == returned[i] # <<>>
ItemOf(i) == returned[i][Len(returned[i])]

\* the results read as soon as one has arrived
MapReadyOnFirstResult == \E i \in 1..Len(image_files) : HasReturned(i)

\* pool.map blocks until every task has a result
MapReady == \A i \in 1..Len(image_files) : HasReturned(i)

RECURSIVE Collect(_)
Collect(i) ==
    IF i > Len(image_files) THEN <<>>
    ELSE (IF HasReturned(i) THEN <<ItemOf(i).value>> ELSE <<>>) \o Collect(i + 1)

TasksThatRaised ==
    {i \in 1..Len(image_files) : HasReturned(i) /\ Raised(ItemOf(i).exc)}

\* line 97: the value of pool.map, or the exception a task raised
MapReturn ==
    /\ pc = "map"
    /\ MapReady
    /\ IF TasksThatRaised # {}
       THEN /\ pc' = "raised"
            /\ error' = ItemOf(CHOOSE i \in TasksThatRaised : TRUE).exc
            /\ results' = results
       ELSE /\ pc' = "summary"
            /\ error' = error
            /\ results' = Collect(1)
    /\ UNCHANGED <<entries, host, image_files, num_processes, next, running,
                   returned, summary, outdir>>

IsSuccess(r) == r[1]
IsFailure(r) == ~r[1]

\* lines 100-106
PrintSummary ==
    /\ pc = "summary"
    /\ summary' = [total |-> Len(results),
                   successful |-> Len(SelectSeq(results, IsSuccess)),
                   failed |-> Len(SelectSeq(results, IsFailure))]
    /\ pc' = "done"
    /\ UNCHANGED <<entries, host, error, image_files, num_processes, next,
                   running, returned, results, outdir>>

Next ==
    \/ Scan
    \/ CreatePool
    \/ Classify
    \/ \E t \in running : OpenSave(t)
    \/ \E t \in running : Piexif(t)
    \/ \E t \in running : Xattr(t)
    \/ \E t \in running : Utime(t)
    \/ MapReturn
    \/ PrintSummary

Spec == Init /\ [][Next]_vars

\* ================================================================ claims
Tasks == 1..Len(image_files)
IsImage(path) == FileAt(path).kind \in ImageKinds
FilesFrom(path) == {n \in DOMAIN outdir : outdir[n].source = path}

\* C1: a task whose new image was written (steps 1-5 done) returns
\* (True, basename, None), whatever the three cleanup steps did.
C1_WrittenTaskSucceeds ==
    \A i \in Tasks : \A k \in 1..Len(returned[i]) :
        (\E n \in FilesFrom(InputPath(i)) : outdir[n].complete)
            => returned[i][k].value = <<TRUE, Basename(InputPath(i)), None>>

\* C2: a run over a directory with no image task ends without an error at
\* the summary, with total = 0, success = 0, failure = 0.
C2_EmptyRunSummarises ==
    (pc \in {"raised", "done"} /\ image_files = <<>>)
        => /\ pc = "done"
           /\ error = NoExc
           /\ summary = [total |-> 0, successful |-> 0, failed |-> 0]

\* C3: remove_all_metadata returns exactly one TaskResult and lets no
\* exception escape: an unclassified file gives (False, basename,
\* "Unsupported or invalid image file"), any later failure is swallowed or
\* becomes (False, basename, message), and nothing reaches the dispatcher.
C3_TaskAlwaysReturnsResult ==
    /\ \A i \in Tasks :
        /\ Len(returned[i]) <= 1
        /\ \A k \in 1..Len(returned[i]) :
            LET it == returned[i][k]
                path == InputPath(i)
            IN /\ ~Raised(it.exc)
               /\ Len(it.value) = 3
               /\ it.value[2] = Basename(path)
               /\ IF it.value[1] THEN it.value[3] = None ELSE it.value[3] # None
               /\ (~Raised(What(path).exc) /\ ~Truthy(What(path).value))
                    => it.value = <<FALSE, Basename(path), UnsupportedMsg>>
    /\ pc = "raised" => image_files = <<>>
    /\ (pc = "direct" /\ ~ENABLED Next) => Len(returned[1]) = 1

C3_Witness ==
    \E i \in Tasks : \E k \in 1..Len(returned[i]) :
        returned[i][k].value = <<FALSE, Basename(InputPath(i)), UnsupportedMsg>>

\* C4: after a run over N images in which no task had a decode or encode
\* failure, the output directory holds exactly N files and N successes
\* are reported.
C4_NFilesNSuccesses ==
    (/\ pc = "done"
     /\ \A k \in 1..Len(results) : results[k][3] \notin {DecodeMsg, EncodeMsg})
        => /\ Cardinality(DOMAIN outdir) = Len(image_files)
           /\ summary.successful = Len(image_files)

\* C5: after a run, the files of the output directory correspond one to one
\* to the successful tasks; no failed task leaves a file, complete or
\* partial.
C5_FilesMatchSuccesses ==
    pc = "done"
        => /\ \A n \in DOMAIN outdir :
                \E k \in 1..Len(results) :
                    /\ results[k][1]
                    /\ results[k][2] = Basename(outdir[n].source)
           /\ \A k \in 1..Len(results) :
                results[k][1]
                    => Cardinality({n \in DOMAIN outdir :
                            Basename(outdir[n].source) = results[k][2]}) = 1

\* C6: every output (completely written file) in the output directory whose
\* task has finished has access and modification time equal to the epoch
\* origin, whatever the cleanup steps before the reset did.
C6_OutputsAtEpoch ==
    \A n \in DOMAIN outdir :
        (/\ outdir[n].complete
         /\ \E i \in Tasks : HasReturned(i) /\ InputPath(i) = outdir[n].source)
            => outdir[n].atime = Epoch /\ outdir[n].mtime = Epoch

\* C7: the summary is computed and printed only after every task of the
\* task list has returned its result, in whatever order they complete.
C7_SummaryAfterAllTasks ==
    pc \in {"summary", "done"}
        => /\ \A i \in Tasks : HasReturned(i)
           /\ running = {}
           /\ Len(results) = Len(image_files)

C7_Witness ==
    /\ pc = "done"
    /\ Len(image_files) >= 2
    /\ num_processes >= 2

\* C8: an entry that is no regular file, or that does not classify as an
\* image (also when classifying raises), is never a task: it gets no output
\* file, no result, and the reported total does not count it.
C8_NonImagesSkipped ==
    pc # "direct"
        => /\ \A i \in Tasks : IsImage(InputPath(i))
           /\ \A n \in DOMAIN outdir : IsImage(outdir[n].source)
           /\ \A i \in Tasks : \A k \in 1..Len(returned[i]) :
                entries[returned[i][k].value[2]].kind \in ImageKinds
           /\ pc = "done"
                => summary.total
                    = Cardinality({i \in DOMAIN entries : entries[i].kind \in ImageKinds})

C8_Witness ==
    /\ pc = "done"
    /\ \E i \in DOMAIN entries : entries[i].kind \in {"dir", "text", "unreadable"}

\* C9: a file that classifies as an image but cannot be decoded gives
\* (False, basename, message) with a non-empty message, and no file is
\* written to the output directory for it.
C9_UndecodableFails ==
    \A i \in Tasks :
        LET path == InputPath(i) IN
        (IsImage(path) /\ FileAt(path).corrupt)
            => /\ FilesFrom(path) = {}
               /\ \A k \in 1..Len(returned[i]) :
                    /\ returned[i][k].value[1] = FALSE
                    /\ returned[i][k].value[2] = Basename(path)
                    /\ returned[i][k].value[3] \notin {None, ""}

C9_Witness ==
    \E i \in Tasks :
        /\ IsImage(InputPath(i))
        /\ FileAt(InputPath(i)).corrupt
        /\ HasReturned(i)
        /\ DOMAIN outdir # {}

\* C10: every task of the task list is run by exactly one worker invocation
\* and gives exactly one result, whether or not other tasks fail; the
\* reported total is the number of tasks and success + failure = total.
C10_OneResultPerTask ==
    /\ \A i \in Tasks :
        Len(returned[i]) + Cardinality({t \in running : t.idx = i})
            = IF i < next THEN 1 ELSE 0
    /\ pc \in {"summary", "done"} => Len(results) = Len(image_files)
    /\ pc = "done"
        => /\ summary.total = Len(image_files)
           /\ summary.successful + summary.failed = summary.total

C10_Witness ==
    /\ pc = "done"
    /\ summary.successful >= 1
    /\ summary.failed >= 1
====
